---- MODULE Spec2Model ----
(***************************************************************************)
(* Model of the graph-rec-engine loading pipeline:                         *)
(*   - Neo4jDriver.execute_batch (src/database/driver.py): the chunked,    *)
(*     retrying, counter-accumulating write loop;                          *)
(*   - the module body of src/database/build_bulk.py: identity assignment  *)
(*     and edge aggregation.                                               *)
(* Spec     is the state machine of execute_batch.                         *)
(* SpecBulk is the state machine of one run of build_bulk.                 *)
(***************************************************************************)
EXTENDS Integers, Sequences, FiniteSets, TLC

VARIABLES
    \* ---- execute_batch ----
    CHUNK_SIZE,   \* driver.py:93 (10000 in the source; scaled, chosen in Init)
    pc,           \* position of the call: idle / loop / attempt / sleeping /
                  \* returned / raised
    batch,        \* the `batch` argument
    total,        \* len(batch)
    overall,      \* running counters dict
    i,            \* outer loop variable (0-based offset of the chunk)
    chunk,        \* batch[i:i+CHUNK_SIZE]
    attempt,      \* inner loop variable
    ret,          \* <<counters>> once the call returned, <<>> otherwise
    exc,          \* <<fault>> once the call raised, <<>> otherwise
    caught,       \* <<fault>> while the inner except clause handles it
    report,       \* what the failure path (lines 162-166) emits
    calls,        \* history: every session.execute_write call of this invocation
    sleeps,       \* history: every time.sleep call of this invocation
    \* ---- build_bulk ----
    pcB,          \* position in the script
    data,         \* the loaded event list
    items_list,   \* sorted(items)
    id_map,       \* item identifier -> dense id
    next_agg,     \* (i1,i2) -> [weight, sessions]
    sessions,     \* sorted session identifiers
    session_map,  \* session identifier -> dense id
    contains,     \* set of (session dense id, item dense id)
    rerun,        \* history: TRUE once the script ran again on a reordered list
    \* ---- main ----
    pcM,          \* position in main(): off / parsed / try / finally / exited / propagated
    args,         \* the parsed command line (read, write, query, batch)
    opResult,     \* what the try body did: none / ok / raised / interrupted / help
    pending,      \* <<v>> while a `return v` of the try statement is pending
    retval,       \* <<v>> once main returned v
    closes        \* number of driver.close() calls

loadVars == <<CHUNK_SIZE, pc, batch, total, overall, i, chunk, attempt, ret,
              exc, caught, report, calls, sleeps>>
bulkVars == <<pcB, data, items_list, id_map, next_agg, sessions, session_map,
              contains, rerun>>
mainVars == <<pcM, args, opResult, pending, retval, closes>>
vars == <<CHUNK_SIZE, pc, batch, total, overall, i, chunk, attempt, ret,
          exc, caught, report, calls, sleeps,
          pcB, data, items_list, id_map, next_agg, sessions, session_map,
          contains, rerun,
          pcM, args, opResult, pending, retval, closes>>

----------------------------------------------------------------------------
(* Bounds *)
MaxN == 5          \* longest record list
MaxChunk == 3      \* largest window size tried for CHUNK_SIZE

(* Program constants *)
MAX_RETRIES == 3

(* Inputs of the environment *)
Faults == {"ServiceUnavailable", "SessionExpired", "ClientError",
           "KeyboardInterrupt"}
\* what summary.notifications of a successful write may be: None or empty,
\* a list of objects with .title and .description, or a list of dicts
Notifications == {"none", "objects", "dicts"}
\* summaries a successful write may report (nodes_created,
\* relationships_created, properties_set)
Summaries == { [nodes_created |-> 1, relationships_created |-> 0, properties_set |-> 2],
               [nodes_created |-> 0, relationships_created |-> 3, properties_set |-> 1] }

\* the fault classes of the driver library: ServiceUnavailable and
\* SessionExpired are the transient ones
FaultClass(f) == IF f \in {"ServiceUnavailable", "SessionExpired"}
                 THEN "transient" ELSE "fatal"

Min2(a, b) == IF a <= b THEN a ELSE b

----------------------------------------------------------------------------
(* execute_batch *)

ZeroCounters == [nodes |-> 0, rels |-> 0, props |-> 0]

\* batch[i:i+CHUNK_SIZE], i 0-based
Chunk(b, off, w) == SubSeq(b, off + 1, Min2(off + w, Len(b)))

\* except (ServiceUnavailable, SessionExpired)
Retryable_All(f) == TRUE
Retryable(f) == f \in {"ServiceUnavailable", "SessionExpired"}

\* wait = 2 ** attempt
Wait(a) == 2 ^ a

\* if attempt == MAX_RETRIES - 1: raise
LastAttempt_Late(a) == a = MAX_RETRIES
LastAttempt(a) == a = MAX_RETRIES - 1

\* overall[...] += summary.counters....
Accumulate_Slip(o, s) ==
    [nodes |-> o.nodes + s.nodes_created,
     rels  |-> o.rels + s.nodes_created,
     props |-> o.props + s.properties_set]
Accumulate(o, s) ==
    [nodes |-> o.nodes + s.nodes_created,
     rels  |-> o.rels + s.relationships_created,
     props |-> o.props + s.properties_set]

\* class S: counters = ... (the object returned on success)
Summary(o) == [nodes_created |-> o.nodes,
               relationships_created |-> o.rels,
               properties_set |-> o.props]

\* Entry of execute_batch up to the first evaluation of the outer loop.
Invoke(b) ==
    /\ pc \in {"idle", "returned", "raised"}
    /\ batch' = b
    /\ total' = Len(b)
    /\ overall' = ZeroCounters
    /\ i' = 0
    /\ chunk' = <<>>
    /\ attempt' = 0
    /\ ret' = <<>>
    /\ exc' = <<>>
    /\ caught' = <<>>
    /\ report' = <<>>
    /\ calls' = <<>>
    /\ sleeps' = <<>>
    /\ pc' = "loop"
    /\ UNCHANGED CHUNK_SIZE

\* for i in range(0, total, CHUNK_SIZE): chunk = batch[i:i+CHUNK_SIZE];
\* the inner loop starts at attempt 0.
NextChunk ==
    /\ pc = "loop"
    /\ i < total
    /\ chunk' = Chunk(batch, i, CHUNK_SIZE)
    /\ attempt' = 0
    /\ pc' = "attempt"
    /\ UNCHANGED <<CHUNK_SIZE, batch, total, overall, i, ret, exc, caught,
                   report, calls, sleeps>>

\* The outer loop is exhausted: the session closes and S() is returned.
Return ==
    /\ pc = "loop"
    /\ i >= total
    /\ ret' = <<Summary(overall)>>
    /\ pc' = "returned"
    /\ UNCHANGED <<CHUNK_SIZE, batch, total, overall, i, chunk, attempt, exc,
                   caught, report, calls, sleeps>>

\* `except Exception` of the outer try: KeyboardInterrupt is not an Exception
CaughtByOuter(f) == f # "KeyboardInterrupt"

\* what lines 162-166 emit for an exception that leaves the outer try
Report(f) == IF CaughtByOuter(f) THEN <<[cause |-> f]>> ELSE <<>>

\* `n.title` / `n.description` on the notifications of the summary: a dict
\* has neither attribute
NotifyRaises(n) == n = "dicts"

\* session.execute_write succeeds and reports summary s with notifications
\* n: the counters are added and the progress is logged; then the
\* notifications are logged, and either the inner loop is left (break) or
\* the attribute access raises AttributeError, which the inner except clause
\* does not match and the outer one logs and re-raises.
WriteOk(s, n) ==
    /\ pc = "attempt"
    /\ calls' = Append(calls, [off |-> i, chunk |-> chunk, attempt |-> attempt,
                               result |-> "ok", counts |-> s])
    /\ overall' = Accumulate(overall, s)
    /\ IF NotifyRaises(n)
       THEN /\ exc' = <<"AttributeError">>
            /\ report' = Report("AttributeError")
            /\ pc' = "raised"
            /\ UNCHANGED i
       ELSE /\ i' = i + CHUNK_SIZE
            /\ pc' = "loop"
            /\ UNCHANGED <<exc, report>>
    /\ UNCHANGED <<CHUNK_SIZE, batch, total, chunk, attempt, ret, caught,
                   sleeps>>

\* session.execute_write raises f and the inner except clause catches it:
\* the warning is logged and time.sleep(wait) begins.  The call has two
\* blocking calls, session.execute_write and time.sleep; each either
\* completes or ends in an exception (WriteFatal, WaitInterrupted).
WriteRetryable(f) ==
    /\ pc = "attempt"
    /\ Retryable(f)
    /\ calls' = Append(calls, [off |-> i, chunk |-> chunk, attempt |-> attempt,
                               result |-> FaultClass(f),
                               counts |-> Summary(ZeroCounters)])
    /\ sleeps' = Append(sleeps, [off |-> i, attempt |-> attempt,
                                 wait |-> Wait(attempt)])
    /\ caught' = <<f>>
    /\ pc' = "sleeping"
    /\ UNCHANGED <<CHUNK_SIZE, batch, total, overall, i, chunk, attempt, ret,
                   exc, report>>

\* time.sleep(wait) returns; `if attempt == MAX_RETRIES - 1: raise`,
\* otherwise the inner loop goes on.
WaitDone ==
    /\ pc = "sleeping"
    /\ IF LastAttempt(attempt)
       THEN \* raise -> outer except Exception -> log, raise
            /\ exc' = caught
            /\ report' = Report(caught[1])
            /\ pc' = "raised"
            /\ UNCHANGED <<i, attempt>>
       ELSE IF attempt + 1 < MAX_RETRIES
       THEN \* next iteration of the inner loop
            /\ attempt' = attempt + 1
            /\ pc' = "attempt"
            /\ UNCHANGED <<i, exc, report>>
       ELSE \* the inner loop is exhausted without break or raise
            /\ i' = i + CHUNK_SIZE
            /\ pc' = "loop"
            /\ UNCHANGED <<attempt, exc, report>>
    /\ caught' = <<>>
    /\ UNCHANGED <<CHUNK_SIZE, batch, total, overall, chunk, ret, calls,
                   sleeps>>

\* time.sleep(wait) ends in KeyboardInterrupt (the process is interrupted
\* during the wait): the exception leaves the except clause and, not being
\* an Exception, passes the outer except clause without the failure log.
WaitInterrupted ==
    /\ pc = "sleeping"
    /\ exc' = <<"KeyboardInterrupt">>
    /\ report' = Report("KeyboardInterrupt")
    /\ caught' = <<>>
    /\ pc' = "raised"
    /\ UNCHANGED <<CHUNK_SIZE, batch, total, overall, i, chunk, attempt, ret,
                   calls, sleeps>>

\* session.execute_write raises f and the inner except clause does not match:
\* the outer except Exception logs and re-raises (an exception that is not
\* an Exception passes it unlogged).
WriteFatal(f) ==
    /\ pc = "attempt"
    /\ ~Retryable(f)
    /\ calls' = Append(calls, [off |-> i, chunk |-> chunk, attempt |-> attempt,
                               result |-> FaultClass(f),
                               counts |-> Summary(ZeroCounters)])
    /\ exc' = <<f>>
    /\ report' = Report(f)
    /\ pc' = "raised"
    /\ UNCHANGED <<CHUNK_SIZE, batch, total, overall, i, chunk, attempt, ret,
                   caught, sleeps>>

Batches == { [k \in 1..n |-> k] : n \in 0..MaxN }

NoArgs == [read |-> "None", write |-> "None", query |-> "None", batch |-> "None"]

MainIdle ==
    /\ pcM = "off"
    /\ args = NoArgs
    /\ opResult = "none"
    /\ pending = <<>>
    /\ retval = <<>>
    /\ closes = 0

BulkIdle ==
    /\ pcB = "off"
    /\ data = <<>>
    /\ items_list = <<>>
    /\ id_map = <<>>
    /\ next_agg = <<>>
    /\ sessions = <<>>
    /\ session_map = <<>>
    /\ contains = {}
    /\ rerun = FALSE

Init ==
    /\ CHUNK_SIZE \in 1..MaxChunk
    /\ pc = "idle"
    /\ batch = <<>>
    /\ total = 0
    /\ overall = ZeroCounters
    /\ i = 0
    /\ chunk = <<>>
    /\ attempt = 0
    /\ ret = <<>>
    /\ exc = <<>>
    /\ caught = <<>>
    /\ report = <<>>
    /\ calls = <<>>
    /\ sleeps = <<>>
    /\ BulkIdle
    /\ MainIdle

Next ==
    \/ \E b \in Batches : Invoke(b) /\ UNCHANGED <<bulkVars, mainVars>>
    \/ NextChunk /\ UNCHANGED <<bulkVars, mainVars>>
    \/ Return /\ UNCHANGED <<bulkVars, mainVars>>
    \/ \E s \in Summaries, n \in Notifications :
            WriteOk(s, n) /\ UNCHANGED <<bulkVars, mainVars>>
    \/ \E f \in Faults : WriteRetryable(f) /\ UNCHANGED <<bulkVars, mainVars>>
    \/ WaitDone /\ UNCHANGED <<bulkVars, mainVars>>
    \/ WaitInterrupted /\ UNCHANGED <<bulkVars, mainVars>>
    \/ \E f \in Faults : WriteFatal(f) /\ UNCHANGED <<bulkVars, mainVars>>

Spec == Init /\ [][Next]_vars

----------------------------------------------------------------------------
(* Properties of execute_batch *)

Offsets == 0..(MaxN + MaxChunk)

CallsOf(c) == SelectSeq(calls, LAMBDA x : x.off = c)
SleepsOf(c) == SelectSeq(sleeps, LAMBDA x : x.off = c)
IsOk(x) == x.result = "ok"
IsTransient(x) == x.result = "transient"

RECURSIVE SumCounts(_)
SumCounts(cs) ==
    IF cs = <<>> THEN ZeroCounters
    ELSE LET r == SumCounts(Tail(cs)) IN
         [nodes |-> Head(cs).counts.nodes_created + r.nodes,
          rels  |-> Head(cs).counts.relationships_created + r.rels,
          props |-> Head(cs).counts.properties_set + r.props]

RECURSIVE SumWaits(_)
SumWaits(ss) == IF ss = <<>> THEN 0 ELSE Head(ss).wait + SumWaits(Tail(ss))

RECURSIVE Concat(_)
Concat(cs) == IF cs = <<>> THEN <<>> ELSE Head(cs).chunk \o Concat(Tail(cs))

\* a chunk has MAX_RETRIES consecutive transient faults in the call log
Exhausted(c) ==
    LET cs == CallsOf(c) IN
    \E j \in 1..Len(cs) :
        /\ j + MAX_RETRIES - 1 <= Len(cs)
        /\ \A m \in j..(j + MAX_RETRIES - 1) : IsTransient(cs[m])

\* C1: a chunk whose write raises a transient fault on MAX_RETRIES
\* consecutive attempts is attempted exactly MAX_RETRIES times; once the
\* wait that follows the last attempt is over the call raises that fault; no
\* counters are returned and no later chunk is ever written.  (A load that
\* is cancelled, ending in KeyboardInterrupt, is not a case of the claim;
\* the attempts, the missing return value and the absence of later writes
\* hold for it as well.)
Thm_C1 ==
    \A c \in Offsets :
        Exhausted(c)
        => /\ Len(CallsOf(c)) = MAX_RETRIES
           /\ \A m \in 1..MAX_RETRIES : CallsOf(c)[m].attempt = m - 1
           /\ ret = <<>>
           /\ \A m \in 1..Len(calls) : calls[m].off <= c
           /\ pc \in {"sleeping", "raised"}
           /\ pc = "sleeping"
              => /\ attempt = MAX_RETRIES - 1
                 /\ Len(caught) = 1
                 /\ FaultClass(caught[1]) = "transient"
           /\ (pc = "raised" /\ exc # <<"KeyboardInterrupt">>)
              => /\ Len(exc) = 1
                 /\ FaultClass(exc[1]) = "transient"
                 /\ report = <<[cause |-> exc[1]]>>

\* a load that exhausted its retries on a chunk that is not the last one,
\* after an earlier chunk committed, and raised the transient fault
Wit_C1 ==
    /\ pc = "raised"
    /\ Len(exc) = 1
    /\ FaultClass(exc[1]) = "transient"
    /\ \E c \in Offsets :
        /\ c > 0
        /\ c + CHUNK_SIZE < total
        /\ Len(CallsOf(c)) = MAX_RETRIES
        /\ \A m \in 1..MAX_RETRIES : IsTransient(CallsOf(c)[m])

\* C2: a chunk whose write fails transiently k < MAX_RETRIES times and then
\* succeeds is committed; the counts of the successful attempt are added
\* exactly once; the waits are 2^0 .. 2^(k-1) in order (total 2^k - 1); the
\* loader goes on to the next chunk (the load does not fail on the committed
\* chunk), whose attempts start again at 0.
Cex_C2 ==
    /\ \A c \in Offsets :
        LET cs == CallsOf(c)
            ss == SleepsOf(c)
            k  == Cardinality({m \in 1..Len(cs) : IsTransient(cs[m])})
        IN  (\E m \in 1..Len(cs) : IsOk(cs[m]))
            => /\ k < MAX_RETRIES
               /\ Len(cs) = k + 1
               /\ IsOk(cs[k + 1])
               /\ \A m \in 1..k : IsTransient(cs[m])
               /\ \A m \in 1..(k + 1) : cs[m].attempt = m - 1
               /\ Len(ss) = k
               /\ \A m \in 1..k : ss[m].wait = 2 ^ (m - 1)
               /\ SumWaits(ss) = 2 ^ k - 1
               /\ pc \in {"loop", "attempt", "sleeping"} => i >= c + CHUNK_SIZE
               /\ pc = "raised" => calls[Len(calls)].off # c
    /\ overall = SumCounts(SelectSeq(calls, IsOk))
    /\ (pc = "attempt" /\ CallsOf(i) = <<>>) => attempt = 0

\* C3: a write attempt failing with a fault outside the transient class
\* aborts the load on that attempt: no retry, no wait, no later chunk, and
\* the call raises instead of returning counters.
Thm_C3 ==
    \A j \in 1..Len(calls) :
        calls[j].result = "fatal"
        => /\ j = Len(calls)
           /\ pc = "raised"
           /\ ret = <<>>
           /\ Len(exc) = 1
           /\ FaultClass(exc[1]) = "fatal"
           /\ \A m \in 1..Len(sleeps) :
                ~(sleeps[m].off = calls[j].off
                  /\ sleeps[m].attempt = calls[j].attempt)

\* a fatal fault on an attempt that still had retries left, with chunks left
Wit_C3 ==
    /\ pc = "raised"
    /\ Len(calls) >= 2
    /\ calls[Len(calls)].result = "fatal"
    /\ calls[Len(calls)].attempt = 1
    /\ calls[Len(calls)].off + CHUNK_SIZE < total

\* C4: a load in which every write succeeds submits ceil(N/W) chunks, in
\* list order, contiguous and disjoint, whose concatenation is the list; all
\* but the last have size W, the last has size N mod W (W when that is 0);
\* for N = 0 nothing is written.
Cex_C4 ==
    (pc \in {"returned", "raised"} /\ \A m \in 1..Len(calls) : IsOk(calls[m]))
    => LET N == Len(batch)
           W == CHUNK_SIZE
           n == Len(calls)
       IN  /\ n = (N + W - 1) \div W
           /\ \A m \in 1..n : calls[m].off = (m - 1) * W
           /\ \A m \in 1..(n - 1) : Len(calls[m].chunk) = W
           /\ n > 0 => Len(calls[n].chunk) = (IF N % W = 0 THEN W ELSE N % W)
           /\ Concat(calls) = batch
           /\ N = 0 => calls = <<>>

\* C5: within one invocation the counters start at zero, never decrease,
\* change only when a chunk commits, and the returned counters are the
\* component-wise sum of the counts of the successful attempts; a new
\* invocation starts from zero again.
C5Step ==
    /\ pc' = "loop" /\ pc \in {"idle", "returned", "raised"}
       => overall' = ZeroCounters
    /\ ~(pc' = "loop" /\ pc \in {"idle", "returned", "raised"})
       => /\ overall'.nodes >= overall.nodes
          /\ overall'.rels >= overall.rels
          /\ overall'.props >= overall.props
          /\ overall' # overall
             => /\ Len(calls') = Len(calls) + 1
                /\ IsOk(calls'[Len(calls')])
    /\ pc' = "returned"
       => /\ Len(ret') = 1
          /\ ret'[1] = Summary(SumCounts(SelectSeq(calls', IsOk)))
Thm_C5 == [][C5Step]_vars

\* a completed load of several chunks, with a retry, that created nodes and
\* relationships
Wit_C5 ==
    /\ pc = "returned"
    /\ Len(ret) = 1
    /\ ret[1].nodes_created > 0
    /\ ret[1].relationships_created > 0
    /\ \E m \in 1..Len(calls) : IsTransient(calls[m])
    /\ Cardinality({m \in 1..Len(calls) : IsOk(calls[m])}) >= 2

\* C10: a failed load reports the index of the failed chunk, the number of
\* attempts made on it, and the last observed cause.
Cex_C10 ==
    (/\ pc = "raised"
     /\ CaughtByOuter(exc[1])
     /\ ~IsOk(calls[Len(calls)]))
    => /\ Len(report) = 1
       /\ {"chunk", "attempts", "cause"} \subseteq DOMAIN report[1]
       /\ report[1].chunk = i
       /\ report[1].attempts = Len(CallsOf(i))
       /\ report[1].cause = exc[1]

----------------------------------------------------------------------------
(* build_bulk: identity assignment and aggregation *)

(* Bounds *)
MaxEvents == 3     \* longest event list
MaxId == 1         \* item identifiers are 0..MaxId
MaxSid == 2        \* session identifiers are 0..MaxSid

\* JSON null / absent key (r.get(...) returns None for both)
None == -1

Events == [session_id : {None} \cup 0..MaxSid,
           item_id : 0..MaxId,
           next_item_id : {None} \cup 0..MaxId]
EventLists == UNION { [1..n -> Events] : n \in 0..MaxEvents }

\* `if r.get(key):` is Python truthiness: None and 0 are both false
Truthy(x) == x # None /\ x # 0

Digit == <<"0", "1", "2", "3", "4", "5", "6", "7", "8", "9">>
\* str(n) for a natural number n
RECURSIVE Str(_)
Str(n) == IF n < 10 THEN Digit[n + 1]
          ELSE Str(n \div 10) \o Digit[(n % 10) + 1]

SetMin(S) == CHOOSE x \in S : \A y \in S : x <= y
\* sorted(S)
RECURSIVE Sorted(_)
Sorted(S) == IF S = {} THEN <<>>
             ELSE <<SetMin(S)>> \o Sorted(S \ {SetMin(S)})

\* {x: i for i, x in enumerate(lst)}
Enumerate(lst) ==
    [x \in {lst[k] : k \in 1..Len(lst)} |->
        (CHOOSE k \in 1..Len(lst) : lst[k] = x /\ \A m \in 1..Len(lst) : lst[m] = x => m <= k) - 1]

\* items = set(); for r in data: add item_id, and next_item_id if truthy
RECURSIVE Items(_)
Items(d) ==
    IF d = <<>> THEN {}
    ELSE LET r == d[Len(d)] IN
         Items(SubSeq(d, 1, Len(d) - 1)) \cup {r.item_id}
            \cup (IF Truthy(r.next_item_id) THEN {r.next_item_id} ELSE {})

\* first-occurrence order of the identifiers (used only as a variant)
RECURSIVE FirstSeen(_)
FirstSeen(d) ==
    IF d = <<>> THEN <<>>
    ELSE LET r == d[Len(d)]
             p == FirstSeen(SubSeq(d, 1, Len(d) - 1))
             seen(l) == {l[k] : k \in 1..Len(l)}
             p1 == IF r.item_id \in seen(p) THEN p ELSE Append(p, r.item_id)
         IN  IF Truthy(r.next_item_id) /\ r.next_item_id \notin seen(p1)
             THEN Append(p1, r.next_item_id) ELSE p1

\* items_list = sorted(items)
ItemsList_FirstSeen(d) == FirstSeen(d)
ItemsList(d) == Sorted(Items(d))

EmptyAgg == [k \in {} |-> [weight |-> 0, sessions |-> {}]]

\* one iteration of the aggregation loop over record r
AggRecord_Overwrite(agg, r, idm) ==
    IF Truthy(r.next_item_id)
    THEN LET k   == <<idm[r.item_id], idm[r.next_item_id]>>
             cur == IF k \in DOMAIN agg THEN agg[k]
                    ELSE [weight |-> 0, sessions |-> {}]
             new == [weight |-> cur.weight + 1,
                     sessions |-> IF Truthy(r.session_id)
                                  THEN {Str(r.session_id)}
                                  ELSE cur.sessions]
         IN  [x \in DOMAIN agg \cup {k} |-> IF x = k THEN new ELSE agg[x]]
    ELSE agg
AggRecord(agg, r, idm) ==
    IF Truthy(r.next_item_id)
    THEN LET k   == <<idm[r.item_id], idm[r.next_item_id]>>
             cur == IF k \in DOMAIN agg THEN agg[k]
                    ELSE [weight |-> 0, sessions |-> {}]
             new == [weight |-> cur.weight + 1,
                     sessions |-> IF Truthy(r.session_id)
                                  THEN cur.sessions \cup {Str(r.session_id)}
                                  ELSE cur.sessions]
         IN  [x \in DOMAIN agg \cup {k} |-> IF x = k THEN new ELSE agg[x]]
    ELSE agg

\* next_agg after the loop `for r in data`
RECURSIVE NextAgg(_, _)
NextAgg(d, idm) ==
    IF d = <<>> THEN EmptyAgg
    ELSE AggRecord(NextAgg(SubSeq(d, 1, Len(d) - 1), idm), d[Len(d)], idm)

\* first-occurrence order of the session identifiers (used only as a variant)
RECURSIVE FirstSeenSessions(_)
FirstSeenSessions(d) ==
    IF d = <<>> THEN <<>>
    ELSE LET r == d[Len(d)]
             p == FirstSeenSessions(SubSeq(d, 1, Len(d) - 1))
         IN  IF Truthy(r.session_id)
                /\ r.session_id \notin {p[k] : k \in 1..Len(p)}
             THEN Append(p, r.session_id) ELSE p

\* sessions = sorted({r["session_id"] for r in data if r.get("session_id")})
SessionsList_FirstSeen(d) == FirstSeenSessions(d)
SessionsList(d) ==
    Sorted({d[k].session_id : k \in {m \in 1..Len(d) : Truthy(d[m].session_id)}})

\* contains after the loop `for r in data`
RECURSIVE Contains(_, _, _)
Contains(d, smap, idm) ==
    IF d = <<>> THEN {}
    ELSE LET r == d[Len(d)]
             c == Contains(SubSeq(d, 1, Len(d) - 1), smap, idm)
         IN  IF Truthy(r.session_id)
             THEN c \cup {<<smap[r.session_id], idm[r.item_id]>>}
             ELSE c

LoadIdle ==
    /\ CHUNK_SIZE = 1
    /\ pc = "idle"
    /\ batch = <<>>
    /\ total = 0
    /\ overall = ZeroCounters
    /\ i = 0
    /\ chunk = <<>>
    /\ attempt = 0
    /\ ret = <<>>
    /\ exc = <<>>
    /\ caught = <<>>
    /\ report = <<>>
    /\ calls = <<>>
    /\ sleeps = <<>>

\* data = json.load(...)
InitBulk ==
    /\ LoadIdle
    /\ MainIdle
    /\ pcB = "items"
    /\ data \in EventLists
    /\ items_list = <<>>
    /\ id_map = <<>>
    /\ next_agg = EmptyAgg
    /\ sessions = <<>>
    /\ session_map = <<>>
    /\ contains = {}
    /\ rerun = FALSE

\* section 1: unique items -> sequential ids
BuildItems ==
    /\ pcB = "items"
    /\ items_list' = ItemsList(data)
    /\ id_map' = Enumerate(ItemsList(data))
    /\ pcB' = "next"
    /\ UNCHANGED <<data, next_agg, sessions, session_map, contains, rerun>>

\* section 2: aggregate NEXT
AggregateNext ==
    /\ pcB = "next"
    /\ next_agg' = NextAgg(data, id_map)
    /\ pcB' = "sessions"
    /\ UNCHANGED <<data, items_list, id_map, sessions, session_map, contains,
                   rerun>>

\* section 3: sessions + CONTAINS
BuildSessions ==
    /\ pcB = "sessions"
    /\ sessions' = SessionsList(data)
    /\ session_map' = Enumerate(SessionsList(data))
    /\ contains' = Contains(data, Enumerate(SessionsList(data)), id_map)
    /\ pcB' = "done"
    /\ UNCHANGED <<data, items_list, id_map, next_agg, rerun>>

\* the script run again on the same events with the records at positions a
\* and b exchanged: sections 1 to 3 as one step.  The script can be run
\* again any number of times, so every order of the list is reached.
Rerun(a, b) ==
    /\ pcB = "done"
    /\ a < b
    /\ b <= Len(data)
    /\ LET d == [data EXCEPT ![a] = data[b], ![b] = data[a]]
           il == ItemsList(d)
           idm == Enumerate(il)
           sl == SessionsList(d)
           smap == Enumerate(sl)
       IN  /\ d # data
           /\ data' = d
           /\ items_list' = il
           /\ id_map' = idm
           /\ next_agg' = NextAgg(d, idm)
           /\ sessions' = sl
           /\ session_map' = smap
           /\ contains' = Contains(d, smap, idm)
    /\ rerun' = TRUE
    /\ pcB' = "done"

NextBulk ==
    \/ BuildItems /\ UNCHANGED <<loadVars, mainVars>>
    \/ AggregateNext /\ UNCHANGED <<loadVars, mainVars>>
    \/ BuildSessions /\ UNCHANGED <<loadVars, mainVars>>
    \/ \E a, b \in 1..MaxEvents : Rerun(a, b) /\ UNCHANGED <<loadVars, mainVars>>

SpecBulk == InitBulk /\ [][NextBulk]_vars

----------------------------------------------------------------------------
(* Properties of build_bulk *)

RECURSIVE SumWeights(_, _)
SumWeights(agg, keys) ==
    IF keys = {} THEN 0
    ELSE LET k == CHOOSE x \in keys : TRUE IN
         agg[k].weight + SumWeights(agg, keys \ {k})

\* U = {e.item_id} \cup {e.next_item_id : e.next_item_id # null}
ItemUniverse(d) ==
    {d[k].item_id : k \in 1..Len(d)}
    \cup {d[k].next_item_id : k \in {m \in 1..Len(d) : d[m].next_item_id # None}}
SessionUniverse(d) ==
    {d[k].session_id : k \in {m \in 1..Len(d) : d[m].session_id # None}}
Rank(x, S) == Cardinality({y \in S : y < x})

\* C6: the sum of the weights of all transition edges equals the number of
\* events whose next_item_id is not null.
Cex_C6 ==
    pcB = "done"
    => SumWeights(next_agg, DOMAIN next_agg)
       = Cardinality({k \in 1..Len(data) : data[k].next_item_id # None})

\* C7: id_map has domain exactly U (item_ids and non-null next_item_ids) and
\* maps each identifier to its rank in sorted U, a bijection onto [0, |U|).
Cex_C7 ==
    pcB \in {"next", "sessions", "done"}
    => LET U == ItemUniverse(data) IN
       /\ DOMAIN id_map = U
       /\ \A x \in U : id_map[x] = Rank(x, U)
       /\ {id_map[x] : x \in U} = 0..(Cardinality(U) - 1)

\* C8: session_map has domain exactly the non-null session_ids, and the
\* containment set is exactly the resolved (session, item) pair of every
\* event with a non-null session_id.
Cex_C8 ==
    pcB = "done"
    => /\ DOMAIN session_map = SessionUniverse(data)
       /\ contains =
            { <<session_map[data[k].session_id], id_map[data[k].item_id]>> :
                k \in {m \in 1..Len(data) : data[m].session_id # None} }

\* C9: running the script on a permutation of the event list yields the
\* same item and session tables, the same transition keys, weights and
\* evidence sets, and the same containment set.
C9Step ==
    (pcB = "done" /\ pcB' = "done")
    => /\ id_map' = id_map
       /\ items_list' = items_list
       /\ session_map' = session_map
       /\ sessions' = sessions
       /\ next_agg' = next_agg
       /\ contains' = contains
Thm_C9 == [][C9Step]_vars

\* a re-run on a reordered list in which the sessions do not occur in
\* sorted order, with two item ids, two session ids, a transition edge
\* observed under two sessions and two containment edges
Wit_C9 ==
    /\ pcB = "done"
    /\ rerun
    /\ Cardinality(DOMAIN id_map) >= 2
    /\ Cardinality(DOMAIN session_map) >= 2
    /\ Cardinality(contains) >= 2
    /\ \E k \in DOMAIN next_agg :
        /\ Cardinality(next_agg[k].sessions) >= 2
        /\ next_agg[k].weight >= 2
    /\ \E m, n \in 1..Len(data) :
        /\ m < n
        /\ Truthy(data[n].session_id)
        /\ data[m].session_id > data[n].session_id
        /\ data[m].item_id > data[n].item_id

\* the events of d that have the ordered item pair of edge k
EventsOfEdge(d, idm, k) ==
    {m \in 1..Len(d) :
        /\ d[m].next_item_id # None
        /\ d[m].item_id \in DOMAIN idm
        /\ d[m].next_item_id \in DOMAIN idm
        /\ <<idm[d[m].item_id], idm[d[m].next_item_id]>> = k}

\* C11: the evidence set of every transition edge is exactly the set of
\* string forms of the original session_id values of the events with that
\* item pair and a non-null session_id; an event without session_id adds
\* weight but no evidence; a session is recorded once, so the evidence set
\* is never larger than the weight.
Cex_C11 ==
    pcB = "done"
    => \A k \in DOMAIN next_agg :
        LET ev == EventsOfEdge(data, id_map, k) IN
        /\ next_agg[k].sessions
             = {Str(data[m].session_id) :
                    m \in {n \in ev : data[n].session_id # None}}
        /\ next_agg[k].weight = Cardinality(ev)
        /\ Cardinality(next_agg[k].sessions) <= next_agg[k].weight

----------------------------------------------------------------------------
(* main: the CLI entry point *)

\* an option is None when absent, otherwise a string (possibly empty)
ArgValues == {"None", "", "q"}
ArgSets == [read : ArgValues, write : ArgValues, query : ArgValues,
            batch : ArgValues]

\* `if args.x:` is Python truthiness: None and "" are both false
ArgTruthy(v) == v # "None" /\ v # ""

\* the branch of the if/elif chain that is taken
Selected(a) ==
    IF ArgTruthy(a.read) THEN "read"
    ELSE IF ArgTruthy(a.write) THEN "write"
    ELSE IF ArgTruthy(a.batch) /\ ArgTruthy(a.query) THEN "batch"
    ELSE "help"

\* args = parser.parse_args()
InitMain ==
    /\ LoadIdle
    /\ BulkIdle
    /\ pcM = "parsed"
    /\ args \in ArgSets
    /\ opResult = "none"
    /\ pending = <<>>
    /\ retval = <<>>
    /\ closes = 0

\* driver = Neo4jDriver() succeeds
ConstructOk ==
    /\ pcM = "parsed"
    /\ pcM' = "try"
    /\ UNCHANGED <<args, opResult, pending, retval, closes>>

\* driver = Neo4jDriver() raises (missing variables, no connectivity): the
\* exception leaves main before the try statement
ConstructFails ==
    /\ pcM = "parsed"
    /\ pcM' = "propagated"
    /\ UNCHANGED <<args, opResult, pending, retval, closes>>

\* the selected read / write / batch operation completes; the try body ends
OpOk ==
    /\ pcM = "try"
    /\ Selected(args) # "help"
    /\ opResult' = "ok"
    /\ pending' = <<>>
    /\ pcM' = "finally"
    /\ UNCHANGED <<args, retval, closes>>

\* the selected operation raises an Exception: the except clause logs it
\* and executes `return 1`
OpRaises ==
    /\ pcM = "try"
    /\ Selected(args) # "help"
    /\ opResult' = "raised"
    /\ pending' = <<1>>
    /\ pcM' = "finally"
    /\ UNCHANGED <<args, retval, closes>>

\* the selected operation is ended by an exception that is not an Exception
\* (KeyboardInterrupt, SystemExit): the except clause does not match
OpInterrupted ==
    /\ pcM = "try"
    /\ Selected(args) # "help"
    /\ opResult' = "interrupted"
    /\ pending' = <<>>
    /\ pcM' = "finally"
    /\ UNCHANGED <<args, retval, closes>>

\* no operation is selected: parser.print_help(); return 1
NoOperation ==
    /\ pcM = "try"
    /\ Selected(args) = "help"
    /\ opResult' = "help"
    /\ pending' = <<1>>
    /\ pcM' = "finally"
    /\ UNCHANGED <<args, retval, closes>>

\* value main returns when the finally clause ends with `return 0`: it
\* replaces any pending return value and discards an exception in flight
FinallyValue(pend) == <<0>>

\* finally: driver.close(); return 0
Finally ==
    /\ pcM = "finally"
    /\ closes' = closes + 1
    /\ retval' = FinallyValue(pending)
    /\ pending' = <<>>
    /\ pcM' = "exited"
    /\ UNCHANGED <<args, opResult>>

\* finally: driver.close() raises; the exception leaves main
FinallyCloseFails ==
    /\ pcM = "finally"
    /\ closes' = closes + 1
    /\ pending' = <<>>
    /\ pcM' = "propagated"
    /\ UNCHANGED <<args, opResult, retval>>

NextMain ==
    \/ ConstructOk /\ UNCHANGED <<loadVars, bulkVars>>
    \/ ConstructFails /\ UNCHANGED <<loadVars, bulkVars>>
    \/ OpOk /\ UNCHANGED <<loadVars, bulkVars>>
    \/ OpRaises /\ UNCHANGED <<loadVars, bulkVars>>
    \/ OpInterrupted /\ UNCHANGED <<loadVars, bulkVars>>
    \/ NoOperation /\ UNCHANGED <<loadVars, bulkVars>>
    \/ Finally /\ UNCHANGED <<loadVars, bulkVars>>
    \/ FinallyCloseFails /\ UNCHANGED <<loadVars, bulkVars>>

SpecMain == InitMain /\ [][NextMain]_vars

\* C12: main closes the driver exactly once on every path after the driver
\* was constructed; it returns 1 when the selected operation raises or when
\* no operation is selected, and 0 only when the operation completed.
Cex_C12 ==
    /\ (pcM \in {"exited", "propagated"} /\ opResult # "none") => closes = 1
    /\ pcM = "exited"
       => /\ opResult \in {"raised", "help"} => retval = <<1>>
          /\ retval = <<0>> => opResult = "ok"

====
